---- MODULE Spec2Model ----
(***************************************************************************)
(* Model of mission-control/server.py: the relay between browser           *)
(* WebSockets (chat_websocket), the HTTP chat routes and the OpenClaw       *)
(* Gateway WebSocket (on_gateway_* callbacks, gateway_connection_loop).     *)
(*                                                                         *)
(* Every handler runs on its own thread (Flask threaded=True, one           *)
(* run_forever thread per WebSocketApp, one connection-loop thread).  A     *)
(* handler is cut into steps where another thread can change what the      *)
(* handler works on: between load_chat_history and save_chat_history (the  *)
(* file is read and rewritten without a lock) and between the save and the *)
(* broadcasts that follow it.  broadcast_to_clients holds clients_lock     *)
(* from its first to its last statement: it is one step when every         *)
(* client.send returns at once, and a step that needs clients_lock waits,  *)
(* as a whole, while another thread holds it.                              *)
(***************************************************************************)
EXTENDS Integers, Sequences, FiniteSets, TLC

\* ------------------------------------------------------------------ bounds
MaxClients == 2      \* browser connections that are ever opened
MaxFrames == 2       \* frames the browsers and HTTP clients submit in total
MaxGwFrames == 3     \* event/response frames the Gateway delivers in total
MaxConns == 3        \* WebSocketApp objects connect_to_gateway ever creates
MaxClock == 2        \* the millisecond clock runs from 0 to MaxClock
MaxLoops == 3        \* iterations of gateway_connection_loop

\* --------------------------------------------------------- program constants
SLEEP_INTERVAL == 30        \* time.sleep(30) of the connection loop
INITIAL_DELAY == 1          \* reconnect_delay = 1
MAX_DELAY == 60             \* min(reconnect_delay * 2, 60)

\* The history capacity the specification asks for ("e.g. 500"), scaled down.
\* server.py itself names no capacity.
Capacity == 2

Clients == 1..MaxClients
Conns == 1..MaxConns
NoConn == 0                 \* gateway_ws = None
None == "None"              \* Python None for session ids and run ids
RunIds == {"r1", "r2"}

\* ------------------------------------------------------------ pure helpers
Min(a, b) == IF a < b THEN a ELSE b

Range(s) == {s[i] : i \in 1..Len(s)}

\* What a browser may put in the "text" field of a send frame / POST body:
\* nothing, blanks only, and a character with or without blanks around it.
RawTexts ==
  {<<>>, <<" ">>, <<" ", " ">>, <<"a">>, <<" ", "a">>, <<"a", " ">>,
   <<" ", "a", " ">>}

\* What the Gateway may put in a message payload or an assistant data field.
GwTexts == {<<>>, <<"a">>, <<"a", "a">>}

RECURSIVE lstrip(_)
lstrip(s) == IF s # <<>> /\ Head(s) = " " THEN lstrip(Tail(s)) ELSE s

RECURSIVE rstrip(_)
rstrip(s) ==
  IF s # <<>> /\ s[Len(s)] = " " THEN rstrip(SubSeq(s, 1, Len(s) - 1)) ELSE s

\* The text taken as submitted, with no strip.
MutStrip(s) == s

\* str.strip() on the submitted text
strip(s) == rstrip(lstrip(s))

\* An event as json.dumps serialises it for a browser: its "type" and the
\* rest of the dict.
Ev(type, body) == [type |-> type, body |-> body]

\* The message dict chat_websocket and send_chat_message_http build.  The keys
\* run_id, complete and streaming are absent there: None / FALSE stand for an
\* absent key (the code only ever stores True under the two flags).
user_message(text, now) ==
  [id |-> <<"me", now>>, text |-> text, from |-> "me", timestamp |-> now,
   run_id |-> None, complete |-> FALSE, streaming |-> FALSE]

\* The message dict on_gateway_message builds for an event of type "message".
koba_message(text, now) ==
  [id |-> <<"koba", now>>, text |-> text, from |-> "koba", timestamp |-> now,
   run_id |-> None, complete |-> FALSE, streaming |-> FALSE]

\* The message dict on_gateway_message builds for the first assistant delta
\* of a run.
agent_message(text, run, is_complete, now) ==
  [id |-> <<"koba", now>>, text |-> text, from |-> "koba", timestamp |-> now,
   run_id |-> run, complete |-> is_complete, streaming |-> ~is_complete]

\* is_complete = 'delta' not in data_field or not data_field['delta']
is_complete(delta) == ~delta

\* The loop that looks for a stored message of this run: the first index i
\* with from == "koba" and run_id == run_id, 0 for existing_idx = None.
existing_idx(msgs, run) ==
  LET hits == {i \in 1..Len(msgs) : msgs[i].from = "koba" /\ msgs[i].run_id = run}
  IN IF hits = {} THEN 0 ELSE CHOOSE i \in hits : \A j \in hits : i <= j

\* The update of the stored message at index i by a later delta.
update_existing(msgs, i, text, complete) ==
  [msgs EXCEPT ![i] =
     IF complete
       THEN [@ EXCEPT !.text = text, !.complete = TRUE, !.run_id = None]
       ELSE [@ EXCEPT !.text = text]]

\* history = {"messages": [], "session_id": main_session_id, ...} of the two
\* clear operations, and the default load_chat_history returns.
empty_history(session) == [messages |-> <<>>, session_id |-> session]

\* ------------------------------------------------------------------- state
VARIABLES
  clock,              \* int(time.time() * 1000)
  history,            \* the JSON document in CHAT_HISTORY_FILE
  chat_clients,       \* the list chat_clients
  broken,             \* browser sockets on which send and receive now raise
  inbox,              \* per browser, the frames its socket has delivered
  wpc,                \* per browser, where its chat_websocket thread stands
  wlocal,             \* per browser, the locals history / message of that thread
  hpc,                \* where the HTTP worker thread stands
  hlocal,             \* the locals history / message of the HTTP handler
  hresp,              \* the last HTTP response: status code and error text
  frames,             \* frames and requests submitted so far
  gateway_ws,         \* the global gateway_ws (NoConn for None)
  gateway_connected,  \* the global gateway_connected
  gateway_hello_ok,   \* the global gateway_hello_ok
  main_session_id,    \* the global main_session_id
  conn,               \* per WebSocketApp, the state of its transport
  gpc,                \* per WebSocketApp, where its callback thread stands
  glocal,             \* per WebSocketApp, the locals of on_gateway_message
  upstream,           \* the requests written to the Gateway, in order
  gwframes,           \* frames the Gateway has delivered so far
  loop_pc,            \* where gateway_connection_loop stands
  reconnect_delay,    \* the local reconnect_delay of the loop
  last_sleep,         \* how long the loop slept in the sleep it last finished
  attempts,           \* one entry per connect_to_gateway call (see LoopIterate)
  loops,              \* iterations of the loop so far
  since_clear,        \* observer of the clear operations (see NoClear)
  clients_lock,       \* who holds clients_lock (see Unlocked)
  received            \* the frames on_gateway_message has taken, in order

browserVars == <<chat_clients, broken, inbox, wpc, wlocal>>
httpVars == <<hpc, hlocal, hresp>>
linkVars == <<gateway_ws, gateway_connected, gateway_hello_ok, main_session_id>>
gwVars == <<conn, gpc, glocal, gwframes>>
loopVars == <<loop_pc, reconnect_delay, last_sleep, attempts, loops>>

vars == <<clock, history, chat_clients, broken, inbox, wpc, wlocal, hpc, hlocal,
          hresp, frames, gateway_ws, gateway_connected, gateway_hello_ok,
          main_session_id, conn, gpc, glocal, upstream, gwframes, loop_pc,
          reconnect_delay, last_sleep, attempts, loops, since_clear,
          clients_lock, received>>

\* since_clear observes the run for the clear operations: `on` holds from the
\* end of a clear until the next send frame, send request or upstream message
\* or agent event is taken up, and `joined` are the browsers that connected
\* meanwhile.
NoClear == [on |-> FALSE, joined |-> {}]

\* clients_lock when no thread holds it.  A thread that holds it is in
\* broadcast_to_clients: `at` is the index in chat_clients of the client whose
\* client.send has not returned yet, `disconnected` the local list of that name.
Unlocked == [holder |-> "none", at |-> 0, disconnected |-> {}]

\* The locals of a handler that is not between a load and its last broadcast.
NoLocal == [history |-> empty_history(None), message |-> user_message(<<>>, 0),
            update |-> FALSE]

\* The state when app.run starts serving: __main__ has written an empty
\* history file if none existed, and no connection has been made.
Init ==
  /\ clock = 0
  /\ history = empty_history(None)
  /\ chat_clients = <<>>
  /\ broken = {}
  /\ inbox = [c \in Clients |-> <<>>]
  /\ wpc = [c \in Clients |-> "off"]
  /\ wlocal = [c \in Clients |-> NoLocal]
  /\ hpc = "idle"
  /\ hlocal = NoLocal
  /\ hresp = [status |-> 0, error |-> ""]
  /\ frames = 0
  /\ gateway_ws = NoConn
  /\ gateway_connected = FALSE
  /\ gateway_hello_ok = FALSE
  /\ main_session_id = None
  /\ conn = [k \in Conns |-> "new"]
  /\ gpc = [k \in Conns |-> "idle"]
  /\ glocal = [k \in Conns |-> NoLocal]
  /\ upstream = <<>>
  /\ gwframes = 0
  /\ loop_pc = "run"
  /\ reconnect_delay = INITIAL_DELAY
  /\ last_sleep = 0
  /\ attempts = <<>>
  /\ loops = 0
  /\ since_clear = NoClear
  /\ clients_lock = Unlocked
  /\ received = <<>>

\* ------------------------------------------------------- shared operations
\* load_chat_history(): the document in the file.
load_chat_history == history

\* The link is Ready: what /api/gateway/status and the init frame report.
Ready == gateway_connected /\ gateway_hello_ok

\* A broadcast that stops at the first send that raises: a frame reaches the
\* registered clients in front of the first broken one.
MutDelivered(inb, clients, evs) ==
  [c \in Clients |->
     IF \E i \in 1..Len(clients) :
          clients[i] = c /\ \A j \in 1..i : clients[j] \notin broken
       THEN inb[c] \o evs ELSE inb[c]]

\* broadcast_to_clients, the sends: client.send raises on a broken socket, so a
\* frame reaches the registered clients whose socket is not broken.  `evs` are
\* the events of consecutive broadcasts, `clients` the list when the first starts.
Delivered(inb, clients, evs) ==
  [c \in Clients |->
     IF c \in Range(clients) /\ c \notin broken THEN inb[c] \o evs ELSE inb[c]]

\* broadcast_to_clients, the removals: every client whose send raised is taken
\* out of chat_clients.
Surviving(clients) == SelectSeq(clients, LAMBDA c : c \notin broken)

\* The guard without its test of gateway_hello_ok.
MutGatewayUsable == gateway_connected /\ gateway_ws # NoConn

\* send_to_gateway, the guard of line 358 (negated).
GatewayUsable == gateway_connected /\ gateway_ws # NoConn /\ gateway_hello_ok

\* gateway_ws.send succeeds when the transport of that WebSocketApp is open;
\* otherwise it raises WebSocketConnectionClosedException.
WsSendWorks == gateway_ws # NoConn /\ conn[gateway_ws] = "open"

\* send_to_gateway(text): the pair (success, result) it returns.
send_to_gateway_result ==
  IF ~GatewayUsable THEN <<FALSE, "Not connected to Gateway">>
  ELSE IF WsSendWorks THEN <<TRUE, "Sent">>
  ELSE <<FALSE, "socket is already closed.">>

\* send_to_gateway(text): the requests written upstream afterwards.
send_to_gateway_upstream(text) ==
  IF GatewayUsable /\ WsSendWorks
    THEN Append(upstream,
                [conn |-> gateway_ws, method |-> "chat.send", text |-> text])
    ELSE upstream

\* The clock: time passes between any two steps.
Tick ==
  /\ clock < MaxClock
  /\ clock' = clock + 1
  /\ UNCHANGED <<history, browserVars, httpVars, frames, linkVars, gwVars,
                 upstream, loopVars>>
  /\ UNCHANGED <<since_clear, clients_lock, received>>

\* ------------------------------------------------- chat_websocket (browser)
\* with clients_lock: chat_clients.append(ws)
WsJoin(c) ==
  /\ wpc[c] = "off"
  /\ clients_lock = Unlocked
  /\ chat_clients' = Append(chat_clients, c)
  /\ wpc' = [wpc EXCEPT ![c] = "joined"]
  /\ UNCHANGED <<clock, history, broken, inbox, wlocal, httpVars, frames,
                 linkVars, gwVars, upstream, loopVars>>
  /\ since_clear' = [since_clear EXCEPT !.joined = IF since_clear.on THEN @ \cup {c} ELSE @]
  /\ UNCHANGED <<clients_lock, received>>

\* history = load_chat_history(), before the init frame is sent
WsLoadInit(c) ==
  /\ wpc[c] = "joined"
  /\ wlocal' = [wlocal EXCEPT ![c] = [NoLocal EXCEPT !.history = load_chat_history]]
  /\ wpc' = [wpc EXCEPT ![c] = "init"]
  /\ UNCHANGED <<clock, history, chat_clients, broken, inbox, httpVars, frames,
                 linkVars, gwVars, upstream, loopVars>>
  /\ UNCHANGED <<since_clear, clients_lock, received>>

\* history = load_chat_history() raises: the file cannot be read, or
\* json.load finds it cut short by a save_chat_history that is rewriting it.
\* The call stands outside every try block, so chat_websocket ends with the
\* exception and the statements after it, the clean-up included, are not run.
WsLoadInitFails(c) ==
  /\ wpc[c] = "joined"
  /\ wpc' = [wpc EXCEPT ![c] = "raised"]
  /\ UNCHANGED <<clock, history, chat_clients, broken, inbox, wlocal, httpVars,
                 frames, linkVars, gwVars, upstream, loopVars>>
  /\ UNCHANGED <<since_clear, clients_lock, received>>

\* The init frame: the flags and the session id are read when it is sent.
init_frame(h) ==
  Ev("init",
     [gateway_connected |-> Ready,
      session_id |-> IF main_session_id # None THEN main_session_id
                                               ELSE h.session_id,
      messages |-> h.messages])

\* ws.send(init); a failure is printed and the handler goes on to its loop.
WsSendInit(c) ==
  /\ wpc[c] = "init"
  /\ inbox' = [inbox EXCEPT ![c] =
                 IF c \in broken THEN @ ELSE Append(@, init_frame(wlocal[c].history))]
  /\ wlocal' = [wlocal EXCEPT ![c] = NoLocal]
  /\ wpc' = [wpc EXCEPT ![c] = "recv"]
  /\ UNCHANGED <<clock, history, chat_clients, broken, httpVars, frames,
                 linkVars, gwVars, upstream, loopVars>>
  /\ UNCHANGED <<since_clear, clients_lock, received>>

\* A frame {"type": "send", "text": raw}: the text is stripped; an empty one
\* is dropped, otherwise the history is loaded and the message appended to
\* the loaded copy.
WsRecvSend(c, raw) ==
  /\ wpc[c] = "recv"
  /\ c \notin broken
  /\ frames < MaxFrames
  /\ frames' = frames + 1
  /\ LET text == strip(raw)
         message == user_message(text, clock)
         loaded == load_chat_history
     IN IF text = <<>>
          THEN UNCHANGED <<wpc, wlocal>>
          ELSE /\ wlocal' = [wlocal EXCEPT ![c] =
                    [history |-> [loaded EXCEPT !.messages = Append(@, message)],
                     message |-> message, update |-> FALSE]]
               /\ wpc' = [wpc EXCEPT ![c] = "save"]
  /\ UNCHANGED <<clock, history, chat_clients, broken, inbox, httpVars,
                 linkVars, gwVars, upstream, loopVars>>
  /\ since_clear' = NoClear
  /\ UNCHANGED <<clients_lock, received>>

\* save_chat_history(history)
WsSave(c) ==
  /\ wpc[c] = "save"
  /\ history' = wlocal[c].history
  /\ wpc' = [wpc EXCEPT ![c] = "deliver"]
  /\ UNCHANGED <<clock, chat_clients, broken, inbox, wlocal, httpVars, frames,
                 linkVars, gwVars, upstream, loopVars>>
  /\ UNCHANGED <<since_clear, clients_lock, received>>

\* The broadcasts of the message and of typing on, send_to_gateway, and on
\* failure the broadcast of typing off and the error frame to this socket
\* alone.  If that ws.send raises, the handler leaves its loop and cleans up.
WsDeliver(c) ==
  /\ wpc[c] = "deliver"
  /\ clients_lock = Unlocked
  /\ LET message == wlocal[c].message
         res == send_to_gateway_result
         evs == <<Ev("message", message), Ev("typing", TRUE)>>
                  \o (IF res[1] THEN <<>> ELSE <<Ev("typing", FALSE)>>)
         sent == Delivered(inbox, chat_clients, evs)
     IN /\ upstream' = send_to_gateway_upstream(message.text)
        /\ chat_clients' = Surviving(chat_clients)
        /\ IF res[1]
             THEN /\ inbox' = sent
                  /\ wpc' = [wpc EXCEPT ![c] = "recv"]
             ELSE IF c \in broken
               THEN /\ inbox' = sent
                    /\ wpc' = [wpc EXCEPT ![c] = "closed"]
               ELSE /\ inbox' = [sent EXCEPT ![c] = Append(@, Ev("error", res[2]))]
                    /\ wpc' = [wpc EXCEPT ![c] = "recv"]
  /\ wlocal' = [wlocal EXCEPT ![c] = NoLocal]
  /\ UNCHANGED <<clock, history, broken, httpVars, frames, linkVars, gwVars,
                 loopVars>>
  /\ UNCHANGED <<since_clear, clients_lock, received>>

\* A frame {"type": "clear"}: the empty history is saved without a load and
\* "clear" is broadcast.
WsRecvClear(c) ==
  /\ wpc[c] = "recv"
  /\ clients_lock = Unlocked
  /\ c \notin broken
  /\ frames < MaxFrames
  /\ frames' = frames + 1
  /\ history' = empty_history(main_session_id)
  /\ inbox' = Delivered(inbox, chat_clients, <<Ev("clear", None)>>)
  /\ chat_clients' = Surviving(chat_clients)
  /\ UNCHANGED <<clock, broken, wpc, wlocal, httpVars, linkVars, gwVars,
                 upstream, loopVars>>
  /\ since_clear' = [on |-> TRUE, joined |-> {}]
  /\ UNCHANGED <<clients_lock, received>>

\* ws.receive() returns None or raises (the browser closed, the socket broke),
\* the frame is not JSON, or load_chat_history or the pong raises: the except
\* of the loop breaks out of it and the socket leaves chat_clients.
WsExit(c) ==
  /\ wpc[c] = "recv"
  /\ clients_lock = Unlocked
  /\ chat_clients' = SelectSeq(chat_clients, LAMBDA d : d # c)
  /\ wpc' = [wpc EXCEPT ![c] = "closed"]
  /\ UNCHANGED <<clock, history, broken, inbox, wlocal, httpVars, frames,
                 linkVars, gwVars, upstream, loopVars>>
  /\ UNCHANGED <<since_clear, clients_lock, received>>

\* The browser's socket breaks (tab closed, network gone): from now on a send
\* to it raises.
ClientBreak(c) ==
  /\ wpc[c] \notin {"off", "closed"}
  /\ c \notin broken
  /\ broken' = broken \cup {c}
  /\ UNCHANGED <<clock, history, chat_clients, inbox, wpc, wlocal, httpVars,
                 frames, linkVars, gwVars, upstream, loopVars>>
  /\ UNCHANGED <<since_clear, clients_lock, received>>

\* ------------------------------------------------------------- HTTP routes
\* POST /api/chat/send up to the load: the text is stripped, an empty one is
\* answered 400.
HttpSend(raw) ==
  /\ hpc = "idle"
  /\ frames < MaxFrames
  /\ frames' = frames + 1
  /\ LET text == strip(raw)
         message == user_message(text, clock)
         loaded == load_chat_history
     IN IF text = <<>>
          THEN /\ hresp' = [status |-> 400, error |-> "Empty message"]
               /\ UNCHANGED <<hpc, hlocal>>
          ELSE /\ hlocal' =
                    [history |-> [loaded EXCEPT !.messages = Append(@, message)],
                     message |-> message, update |-> FALSE]
               /\ hpc' = "save"
               /\ UNCHANGED hresp
  /\ UNCHANGED <<clock, history, browserVars, linkVars, gwVars, upstream,
                 loopVars>>
  /\ since_clear' = NoClear
  /\ UNCHANGED <<clients_lock, received>>

\* save_chat_history(history)
HttpSave ==
  /\ hpc = "save"
  /\ history' = hlocal.history
  /\ hpc' = "deliver"
  /\ UNCHANGED <<clock, browserVars, hlocal, hresp, frames, linkVars, gwVars,
                 upstream, loopVars>>
  /\ UNCHANGED <<since_clear, clients_lock, received>>

\* send_to_gateway, then the broadcast of the message, then the response:
\* 200, or 500 with the error of send_to_gateway.
HttpDeliver ==
  /\ hpc = "deliver"
  /\ clients_lock = Unlocked
  /\ LET res == send_to_gateway_result
     IN /\ upstream' = send_to_gateway_upstream(hlocal.message.text)
        /\ inbox' = Delivered(inbox, chat_clients, <<Ev("message", hlocal.message)>>)
        /\ chat_clients' = Surviving(chat_clients)
        /\ hresp' = IF res[1] THEN [status |-> 200, error |-> ""]
                              ELSE [status |-> 500, error |-> res[2]]
  /\ hlocal' = NoLocal
  /\ hpc' = "idle"
  /\ UNCHANGED <<clock, history, broken, wpc, wlocal, frames, linkVars, gwVars,
                 loopVars>>
  /\ UNCHANGED <<since_clear, clients_lock, received>>

\* POST /api/chat/clear
clear_chat ==
  /\ hpc = "idle"
  /\ clients_lock = Unlocked
  /\ frames < MaxFrames
  /\ frames' = frames + 1
  /\ history' = empty_history(main_session_id)
  /\ inbox' = Delivered(inbox, chat_clients, <<Ev("clear", None)>>)
  /\ chat_clients' = Surviving(chat_clients)
  /\ hresp' = [status |-> 200, error |-> ""]
  /\ UNCHANGED <<clock, broken, wpc, wlocal, hpc, hlocal, linkVars, gwVars,
                 upstream, loopVars>>
  /\ since_clear' = [on |-> TRUE, joined |-> {}]
  /\ UNCHANGED <<clients_lock, received>>

\* broadcast_to_clients: the clients in `part` whose client.send raises.
Failed(part) == {c \in Range(part) : c \in broken}

\* POST /api/chat/clear when the socket of chat_clients[i] takes no more data
\* (its browser reads slowly): the empty history is saved, clients_lock is
\* taken, the clients in front of chat_clients[i] are sent "clear", and
\* client.send for chat_clients[i] does not return.
clear_chat_waits(i) ==
  /\ hpc = "idle"
  /\ clients_lock = Unlocked
  /\ frames < MaxFrames
  /\ i \in 1..Len(chat_clients)
  /\ chat_clients[i] \notin broken
  /\ frames' = frames + 1
  /\ history' = empty_history(main_session_id)
  /\ LET front == SubSeq(chat_clients, 1, i - 1)
     IN /\ inbox' = Delivered(inbox, front, <<Ev("clear", None)>>)
        /\ clients_lock' = [holder |-> "clear_chat", at |-> i,
                            disconnected |-> Failed(front)]
  /\ hpc' = "sending"
  /\ UNCHANGED <<clock, chat_clients, broken, wpc, wlocal, hlocal, hresp,
                 linkVars, gwVars, upstream, loopVars>>
  /\ UNCHANGED <<since_clear, received>>

\* The client.send that waited returns (the browser read on) or raises (its
\* socket broke): the rest of chat_clients is sent "clear", the clients whose
\* send raised are removed, clients_lock is released and 200 is answered.
clear_chat_resumes ==
  /\ hpc = "sending"
  /\ LET rest == SubSeq(chat_clients, clients_lock.at, Len(chat_clients))
         disconnected == clients_lock.disconnected \cup Failed(rest)
     IN /\ inbox' = Delivered(inbox, rest, <<Ev("clear", None)>>)
        /\ chat_clients' = SelectSeq(chat_clients, LAMBDA c : c \notin disconnected)
  /\ clients_lock' = Unlocked
  /\ hresp' = [status |-> 200, error |-> ""]
  /\ hpc' = "idle"
  /\ UNCHANGED <<clock, history, broken, wpc, wlocal, hlocal, frames, linkVars,
                 gwVars, upstream, loopVars>>
  /\ since_clear' = [on |-> TRUE, joined |-> {}]
  /\ UNCHANGED received

\* ------------------------------------------------------ Gateway callbacks
\* The callbacks of one WebSocketApp run on its run_forever thread, one after
\* the other: a callback starts when the thread is idle.

\* on_gateway_open
on_gateway_open(k) ==
  /\ conn[k] = "connecting"
  /\ gpc[k] = "idle"
  /\ conn' = [conn EXCEPT ![k] = "open"]
  /\ gateway_connected' = TRUE
  /\ UNCHANGED <<clock, history, browserVars, httpVars, frames, gateway_ws,
                 gateway_hello_ok, main_session_id, gpc, glocal, gwframes,
                 upstream, loopVars>>
  /\ UNCHANGED <<since_clear, clients_lock, received>>

\* on_gateway_close: the transport closed, or the connection attempt failed.
on_gateway_close(k) ==
  /\ conn[k] \in {"connecting", "open"}
  /\ gpc[k] = "idle"
  /\ clients_lock = Unlocked
  /\ conn' = [conn EXCEPT ![k] = "closed"]
  /\ gateway_connected' = FALSE
  /\ gateway_hello_ok' = FALSE
  /\ main_session_id' = None
  /\ inbox' = Delivered(inbox, chat_clients,
                 <<Ev("gateway_status", [connected |-> FALSE, session_id |-> None])>>)
  /\ chat_clients' = Surviving(chat_clients)
  /\ attempts' = IF Ready THEN [attempts EXCEPT ![Len(attempts)].lost = TRUE]
                          ELSE attempts
  /\ UNCHANGED <<clock, history, broken, wpc, wlocal, httpVars, frames,
                 gateway_ws, gpc, glocal, gwframes, upstream, loop_pc,
                 reconnect_delay, last_sleep, loops>>
  /\ UNCHANGED <<since_clear, clients_lock, received>>

\* A frame of the Gateway as on_gateway_message tells them apart: its "type",
\* its "event", and what the branch taken looks at next (the kind of a
\* response, the stream of an agent event).
Frame(type, event, detail) == [type |-> type, event |-> event, detail |-> detail]

\* A frame arrives on connection k and on_gateway_message takes it.
Arrives(k, frame) ==
  /\ conn[k] = "open"
  /\ gpc[k] = "idle"
  /\ gwframes < MaxGwFrames
  /\ gwframes' = gwframes + 1
  /\ received' = Append(received, frame)

\* type "event", event "connect.challenge": send_connect_message(ws)
GwChallenge(k) ==
  /\ Arrives(k, Frame("event", "connect.challenge", None))
  /\ upstream' = Append(upstream, [conn |-> k, method |-> "connect", text |-> <<>>])
  /\ UNCHANGED <<clock, history, browserVars, httpVars, frames, linkVars, conn,
                 gpc, glocal, loopVars>>
  /\ UNCHANGED <<since_clear, clients_lock>>

\* type "res" / "response": an error is printed; a result of type hello-ok
\* sets gateway_hello_ok and main_session_id and is broadcast; any other
\* result is dropped.
GwResponse(k, kind) ==
  /\ Arrives(k, Frame("res", None, kind))
  /\ kind = "hello-ok" => clients_lock = Unlocked
  /\ IF kind = "hello-ok"
       THEN /\ gateway_hello_ok' = TRUE
            /\ main_session_id' = "main"
            /\ inbox' = Delivered(inbox, chat_clients,
                 <<Ev("gateway_status", [connected |-> TRUE, session_id |-> "main"])>>)
            /\ chat_clients' = Surviving(chat_clients)
            /\ attempts' = [attempts EXCEPT ![Len(attempts)].ready = TRUE]
       ELSE UNCHANGED <<gateway_hello_ok, main_session_id, inbox, chat_clients,
                        attempts>>
  /\ UNCHANGED <<clock, history, broken, wpc, wlocal, httpVars, frames,
                 gateway_ws, gateway_connected, conn, gpc, glocal, upstream,
                 loop_pc, reconnect_delay, last_sleep, loops>>
  /\ UNCHANGED <<since_clear, clients_lock>>

\* Frames no branch of on_gateway_message takes up: the Gateway's tick, an
\* event and a type the code does not name, and a frame that is not JSON
\* (json.loads raises and the except of the callback prints the error).
OtherFrames ==
  {Frame("event", "tick", None), Frame("event", "presence", None),
   Frame("hello", None, None), Frame("not JSON", None, None)}

\* on_gateway_message with no try around its body: the exception of a frame
\* that is not JSON leaves the callback and its thread does not return to
\* take the next frame.
MutGwOther(k, frame) ==
  /\ Arrives(k, frame)
  /\ gpc' = [gpc EXCEPT ![k] = IF frame.type = "not JSON" THEN "raised" ELSE @]
  /\ UNCHANGED <<clock, history, browserVars, httpVars, frames, linkVars, conn,
                 glocal, upstream, loopVars>>
  /\ UNCHANGED <<since_clear, clients_lock>>

\* on_gateway_message on such a frame: it returns with nothing done.
GwOther(k, frame) ==
  /\ Arrives(k, frame)
  /\ UNCHANGED <<clock, history, browserVars, httpVars, frames, linkVars, conn,
                 gpc, glocal, upstream, loopVars>>
  /\ UNCHANGED <<since_clear, clients_lock>>

\* type "event", event "message": the message is built, the history loaded
\* and the message appended to the loaded copy.
GwMessage(k, text) ==
  /\ Arrives(k, Frame("event", "message", None))
  /\ LET message == koba_message(text, clock)
         loaded == load_chat_history
     IN glocal' = [glocal EXCEPT ![k] =
          [history |-> [loaded EXCEPT !.messages = Append(@, message)],
           message |-> message, update |-> FALSE]]
  /\ gpc' = [gpc EXCEPT ![k] = "save"]
  /\ UNCHANGED <<clock, history, browserVars, httpVars, frames, linkVars, conn,
                 upstream, loopVars>>
  /\ since_clear' = NoClear
  /\ UNCHANGED clients_lock

\* The payloads of an "agent" event: assistant deltas with a data field, one
\* event of another stream and one assistant event without data.
AgentPayloads ==
  [stream : {"assistant"}, has_data : {TRUE}, text : GwTexts, delta : BOOLEAN,
   run : RunIds]
  \cup {[stream |-> "tool", has_data |-> TRUE, text |-> <<"a">>, delta |-> TRUE,
         run |-> "r1"],
        [stream |-> "assistant", has_data |-> FALSE, text |-> <<>>,
         delta |-> FALSE, run |-> "r1"]}

\* The history on_gateway_message holds after merging an assistant delta into
\* the loaded one, the message it will broadcast and whether as an update.
merge_delta(loaded, p, now) ==
  LET idx == existing_idx(loaded.messages, p.run)
      complete == is_complete(p.delta)
      updated == update_existing(loaded.messages, idx, p.text, complete)
      message == agent_message(p.text, p.run, complete, now)
  IN IF idx # 0
       THEN [history |-> [loaded EXCEPT !.messages = updated],
             message |-> updated[idx], update |-> TRUE]
       ELSE [history |-> [loaded EXCEPT !.messages = Append(@, message)],
             message |-> message, update |-> FALSE]

\* type "event", event "agent": an assistant event with data broadcasts typing
\* off and, if its text is not empty, loads the history and merges the delta
\* into the loaded copy.  Every other agent event is dropped.
GwAgent(k, p) ==
  /\ Arrives(k, Frame("event", "agent", p.stream))
  /\ (p.stream = "assistant" /\ p.has_data) => clients_lock = Unlocked
  /\ IF p.stream = "assistant" /\ p.has_data
       THEN /\ inbox' = Delivered(inbox, chat_clients, <<Ev("typing", FALSE)>>)
            /\ chat_clients' = Surviving(chat_clients)
            /\ IF p.text # <<>>
                 THEN /\ glocal' = [glocal EXCEPT ![k] =
                                      merge_delta(load_chat_history, p, clock)]
                      /\ gpc' = [gpc EXCEPT ![k] = "save"]
                 ELSE UNCHANGED <<glocal, gpc>>
       ELSE UNCHANGED <<inbox, chat_clients, glocal, gpc>>
  /\ UNCHANGED <<clock, history, broken, wpc, wlocal, httpVars, frames,
                 linkVars, conn, upstream, loopVars>>
  /\ since_clear' = NoClear
  /\ UNCHANGED clients_lock

\* save_chat_history(history) of on_gateway_message
GwSave(k) ==
  /\ gpc[k] = "save"
  /\ history' = glocal[k].history
  /\ gpc' = [gpc EXCEPT ![k] = "bcast"]
  /\ UNCHANGED <<clock, browserVars, httpVars, frames, linkVars, conn, glocal,
                 gwframes, upstream, loopVars>>
  /\ UNCHANGED <<since_clear, clients_lock, received>>

\* The broadcast that ends on_gateway_message: "message", or "message_update"
\* for a stored message that was updated.
GwBroadcast(k) ==
  /\ gpc[k] = "bcast"
  /\ clients_lock = Unlocked
  /\ inbox' = Delivered(inbox, chat_clients,
        <<Ev(IF glocal[k].update THEN "message_update" ELSE "message",
             glocal[k].message)>>)
  /\ chat_clients' = Surviving(chat_clients)
  /\ glocal' = [glocal EXCEPT ![k] = NoLocal]
  /\ gpc' = [gpc EXCEPT ![k] = "idle"]
  /\ UNCHANGED <<clock, history, broken, wpc, wlocal, httpVars, frames,
                 linkVars, conn, gwframes, upstream, loopVars>>
  /\ UNCHANGED <<since_clear, clients_lock, received>>

\* ------------------------------------------------- gateway_connection_loop
\* connect_to_gateway(): a new WebSocketApp becomes gateway_ws and its thread
\* starts connecting.
connect_to_gateway_ws == Len(attempts) + 1

\* One pass of the while loop up to time.sleep(30).  No statement of the try
\* body raises (connect_to_gateway and the heartbeat catch their own
\* exceptions), so the except branch with its sleep(reconnect_delay) is not
\* taken.  attempts logs each connect_to_gateway call: the sleep that came
\* before it, (set by the hello-ok response) whether the link became Ready
\* before the next call, and (set by on_gateway_close) whether a transport
\* closed while the link was Ready before the next call.
LoopIterate ==
  /\ loop_pc = "run"
  /\ loops < MaxLoops
  /\ loops' = loops + 1
  /\ IF ~gateway_connected
       THEN /\ connect_to_gateway_ws <= MaxConns
            /\ gateway_ws' = connect_to_gateway_ws
            /\ conn' = [conn EXCEPT ![connect_to_gateway_ws] = "connecting"]
            /\ attempts' = Append(attempts, [delay |-> last_sleep, ready |-> FALSE,
                                           lost |-> FALSE])
            /\ reconnect_delay' = INITIAL_DELAY
            /\ UNCHANGED upstream
       ELSE /\ upstream' =
                 IF GatewayUsable /\ WsSendWorks
                   THEN Append(upstream,
                          [conn |-> gateway_ws, method |-> "ping", text |-> <<>>])
                   ELSE upstream
            /\ UNCHANGED <<gateway_ws, conn, attempts, reconnect_delay>>
  /\ loop_pc' = "sleep"
  /\ UNCHANGED <<clock, history, browserVars, httpVars, frames,
                 gateway_connected, gateway_hello_ok, main_session_id, gpc,
                 glocal, gwframes, last_sleep>>
  /\ UNCHANGED <<since_clear, clients_lock, received>>

\* time.sleep(30) returns.
LoopWake ==
  /\ loop_pc = "sleep"
  /\ loop_pc' = "run"
  /\ last_sleep' = SLEEP_INTERVAL
  /\ UNCHANGED <<clock, history, browserVars, httpVars, frames, linkVars,
                 gwVars, upstream, reconnect_delay, attempts, loops>>
  /\ UNCHANGED <<since_clear, clients_lock, received>>

\* ------------------------------------------------------------ specifications
Browser ==
  \E c \in Clients :
    \/ WsJoin(c) \/ WsLoadInit(c) \/ WsLoadInitFails(c) \/ WsSendInit(c)
    \/ (\E raw \in RawTexts : WsRecvSend(c, raw))
    \/ WsSave(c) \/ WsDeliver(c) \/ WsRecvClear(c) \/ WsExit(c) \/ ClientBreak(c)

Http ==
  \/ (\E raw \in RawTexts : HttpSend(raw))
  \/ HttpSave \/ HttpDeliver \/ clear_chat
  \/ (\E i \in Clients : clear_chat_waits(i)) \/ clear_chat_resumes

Gateway ==
  \E k \in Conns :
    \/ on_gateway_open(k) \/ on_gateway_close(k) \/ GwChallenge(k)
    \/ (\E kind \in {"hello-ok", "error", "other"} : GwResponse(k, kind))
    \/ (\E text \in GwTexts : GwMessage(k, text))
    \/ (\E p \in AgentPayloads : GwAgent(k, p))
    \/ (\E frame \in OtherFrames : GwOther(k, frame))
    \/ GwSave(k) \/ GwBroadcast(k)

Loop == LoopIterate \/ LoopWake

\* The whole program.
Next == Tick \/ Browser \/ Http \/ Gateway \/ Loop

Spec == Init /\ [][Next]_vars

\* The parts of the program the properties below are checked on.  Each takes
\* some of the steps of Next, so each of its behaviours is one of Spec.

\* The send path of the browsers: joins, sends and broken sockets, with the
\* Gateway never reached.
NextBroadcast ==
  \E c \in Clients :
    \/ WsJoin(c) \/ WsLoadInit(c) \/ WsSendInit(c) \/ ClientBreak(c)
    \/ (\E raw \in RawTexts : WsRecvSend(c, raw))
    \/ WsSave(c) \/ WsDeliver(c)

SpecBroadcast == Init /\ [][NextBroadcast]_vars

\* Sends of one browser and of the HTTP route while the link comes up.
NextSend ==
  \/ LoopIterate
  \/ (\E k \in Conns :
        on_gateway_open(k) \/ on_gateway_close(k) \/ GwResponse(k, "hello-ok"))
  \/ (\E raw \in RawTexts : HttpSend(raw)) \/ HttpSave \/ HttpDeliver
  \/ LET c == CHOOSE d \in Clients : TRUE
     IN \/ WsJoin(c) \/ WsLoadInit(c) \/ WsSendInit(c)
        \/ (\E raw \in RawTexts : WsRecvSend(c, raw))
        \/ WsSave(c) \/ WsDeliver(c)

SpecSend == Init /\ [][NextSend]_vars

\* HTTP sends while the link comes up, is lost and is made again.
NextLinkSend ==
  \/ LoopIterate \/ LoopWake
  \/ (\E k \in Conns :
        on_gateway_open(k) \/ on_gateway_close(k) \/ GwResponse(k, "hello-ok"))
  \/ (\E raw \in RawTexts : HttpSend(raw)) \/ HttpSave \/ HttpDeliver

SpecLinkSend == Init /\ [][NextLinkSend]_vars

\* The connection loop and the handshake.
NextLink ==
  \/ LoopIterate \/ LoopWake
  \/ \E k \in Conns :
       \/ on_gateway_open(k) \/ on_gateway_close(k) \/ GwChallenge(k)
       \/ (\E kind \in {"hello-ok", "error", "other"} : GwResponse(k, kind))

SpecLink == Init /\ [][NextLink]_vars

\* The same with the scheduling of the loop thread: gateway_connection_loop
\* runs on a thread of its own that nothing blocks, so a pass that can be
\* made is made and a sleep ends.
SpecLinkFair == SpecLink /\ WF_vars(LoopIterate) /\ WF_vars(LoopWake)

\* The history under upstream events, with the clock running.
NextStore ==
  \/ Tick \/ LoopIterate
  \/ \E k \in Conns :
       \/ on_gateway_open(k)
       \/ (\E text \in GwTexts : GwMessage(k, text))
       \/ (\E p \in AgentPayloads : GwAgent(k, p))
       \/ GwSave(k) \/ GwBroadcast(k)

SpecStore == Init /\ [][NextStore]_vars

\* Sends and clears of browsers and of the HTTP routes.
NextClear ==
  \/ clear_chat
  \/ \E c \in Clients :
       \/ WsJoin(c) \/ WsLoadInit(c) \/ WsSendInit(c) \/ WsRecvClear(c)
       \/ (\E raw \in RawTexts : WsRecvSend(c, raw))
       \/ WsSave(c) \/ WsDeliver(c)

SpecClear == Init /\ [][NextClear]_vars

\* The registry: browsers that come and go, and clears whose broadcast may
\* find a browser that reads slowly.
NextRegistry ==
  \/ clear_chat \/ (\E i \in Clients : clear_chat_waits(i)) \/ clear_chat_resumes
  \/ \E c \in Clients :
       \/ WsJoin(c) \/ WsLoadInit(c) \/ WsLoadInitFails(c) \/ WsSendInit(c)
       \/ WsRecvClear(c) \/ WsExit(c) \/ ClientBreak(c)

SpecRegistry == Init /\ [][NextRegistry]_vars

\* The frames of the Gateway with one browser registered: hello-ok and error
\* responses, a message, the deltas of one run, the agent event of another
\* stream and the frames no branch takes up.
NextFrames ==
  \/ LoopIterate
  \/ (\E k \in Conns :
        \/ on_gateway_open(k)
        \/ (\E kind \in {"hello-ok", "error"} : GwResponse(k, kind))
        \/ GwMessage(k, <<"a">>)
        \/ (\E p \in {q \in AgentPayloads :
                        \/ q.stream # "assistant" \/ ~q.has_data
                        \/ (q.text = <<"a">> /\ q.run = "r1")} :
              GwAgent(k, p))
        \/ (\E frame \in OtherFrames : GwOther(k, frame))
        \/ GwSave(k) \/ GwBroadcast(k))
  \/ LET c == CHOOSE d \in Clients : TRUE
     IN WsJoin(c) \/ WsLoadInit(c) \/ WsSendInit(c)

SpecFrames == Init /\ [][NextFrames]_vars

\* Sends of one browser while the Gateway delivers messages: two threads
\* that load, save and broadcast.
NextOrder ==
  \/ LoopIterate
  \/ (\E k \in Conns :
        \/ on_gateway_open(k)
        \/ (\E text \in GwTexts : GwMessage(k, text))
        \/ GwSave(k) \/ GwBroadcast(k))
  \/ LET c == CHOOSE d \in Clients : TRUE
     IN \/ WsJoin(c) \/ WsLoadInit(c) \/ WsSendInit(c)
        \/ (\E raw \in RawTexts : WsRecvSend(c, raw))
        \/ WsSave(c) \/ WsDeliver(c)

SpecOrder == Init /\ [][NextOrder]_vars

\* One browser that sends while the link comes up, answers arrive as a
\* message or as the deltas of one run, and the link is lost.
NextTyping ==
  \/ LoopIterate
  \/ (\E k \in Conns :
        \/ on_gateway_open(k) \/ on_gateway_close(k)
        \/ GwResponse(k, "hello-ok")
        \/ GwMessage(k, <<"a">>)
        \/ (\E p \in {q \in AgentPayloads :
                        q.stream = "assistant" /\ q.has_data
                          /\ q.text = <<"a">> /\ q.run = "r1"} :
              GwAgent(k, p))
        \/ GwSave(k) \/ GwBroadcast(k))
  \/ LET c == CHOOSE d \in Clients : TRUE
     IN \/ WsJoin(c) \/ WsLoadInit(c) \/ WsSendInit(c)
        \/ (\E raw \in RawTexts : WsRecvSend(c, raw))
        \/ WsSave(c) \/ WsDeliver(c)

\* The steps a handler thread makes by itself once it has taken a frame:
\* nothing blocks them (here no client.send waits), so each is made.  That a
\* frame arrives, from a browser or from the Gateway, is up to the sender.
HandlerSteps ==
  \/ (\E k \in Conns : GwSave(k) \/ GwBroadcast(k))
  \/ (\E c \in Clients : WsLoadInit(c) \/ WsSendInit(c) \/ WsSave(c) \/ WsDeliver(c))

SpecTypingFair == Init /\ [][NextTyping]_vars /\ WF_vars(HandlerSteps /\ NextTyping)

\* ---------------------------------------------------------------- properties
\* The frames browser d receives in the step.
Got(d) == SubSeq(inbox'[d], Len(inbox[d]) + 1, Len(inbox'[d]))

\* Those of them that come from broadcast_to_clients: init, error and pong are
\* written to one socket by its own handler.
Fanout(d) == SelectSeq(Got(d), LAMBDA e : e.type \notin {"init", "error", "pong"})

\* How many of the frames in s are the "message" event of message m.
RECURSIVE MessageEvents(_, _)
MessageEvents(s, m) ==
  IF s = <<>> THEN 0
  ELSE (IF Head(s).type = "message" /\ Head(s).body = m THEN 1 ELSE 0)
       + MessageEvents(Tail(s), m)

NoDuplicates(s) == \A i, j \in 1..Len(s) : s[i] = s[j] => i = j

IsBlank(raw) == \A i \in 1..Len(raw) : raw[i] = " "

ChatSends(up) == SelectSeq(up, LAMBDA f : f.method = "chat.send")

\* C1: when a browser's send is delivered while the link is not Ready, the
\* message is in the store, every registered subscriber whose socket works
\* receives the "message" event exactly once, and every one of them also
\* receives an error or status event that reports the failed delivery.
C1_FailureReachesAllSubscribers ==
  [][\A c \in Clients :
       (wpc[c] = "deliver" /\ wpc'[c] # "deliver" /\ ~Ready) =>
         /\ \E i \in 1..Len(history'.messages) :
              history'.messages[i] = wlocal[c].message
         /\ \A d \in Range(chat_clients) \ broken :
              /\ MessageEvents(Got(d), wlocal[c].message) = 1
              /\ \E i \in 1..Len(Got(d)) :
                   Got(d)[i].type \in {"error", "gateway_status"}]_vars

\* C2: a send frame or POST whose text is empty or blank changes neither the
\* store nor any browser's frames nor the registry, writes nothing upstream
\* and leaves its handler where it was, with no message in hand; the HTTP
\* route answers 400.
C2_EmptyTextRejected ==
  [][\A raw \in RawTexts :
       IsBlank(raw) =>
         /\ \A c \in Clients :
              WsRecvSend(c, raw) =>
                UNCHANGED <<history, inbox, chat_clients, upstream, wpc, wlocal>>
         /\ HttpSend(raw) =>
              /\ UNCHANGED <<history, inbox, chat_clients, upstream, hpc, hlocal>>
              /\ hresp'.status = 400]_vars

\* C2 witness: a blank POST was answered 400 while the link was Ready, with a
\* message in the store and a chat.send upstream.
C2_Witness ==
  /\ hresp.status = 400
  /\ Ready
  /\ history.messages # <<>>
  /\ ChatSends(upstream) # <<>>

\* The subscribers a broadcast of this step removed: those that left
\* chat_clients other than by the end of their own receive loop.
Dropped ==
  {d \in Range(chat_clients) \ Range(chat_clients') :
     ~(wpc[d] = "recv" /\ wpc'[d] = "closed")}

\* C3: in a step that broadcasts (some subscriber receives a broadcast event
\* or a broadcast removes one), every registered subscriber whose socket
\* works receives the events, the same ones and each once, and stays
\* registered; every registered subscriber whose socket is broken receives
\* nothing and is removed; and nobody is removed in any step but a broken
\* subscriber or one whose handler ends.
C3_BroadcastIsolation ==
  [][/\ ((\E c \in Clients : Fanout(c) # <<>>) \/ Dropped # {}) =>
          /\ \A c, d \in Range(chat_clients) \ broken :
               /\ Fanout(c) # <<>>
               /\ NoDuplicates(Fanout(c))
               /\ Fanout(d) = Fanout(c)
               /\ d \in Range(chat_clients')
          /\ \A d \in Range(chat_clients) \cap broken :
               Fanout(d) = <<>> /\ d \notin Range(chat_clients')
     /\ \A d \in Range(chat_clients) \ Range(chat_clients') :
          d \in broken \/ wpc'[d] = "closed"]_vars

\* C3 witness: a subscriber whose socket broke has been removed by a broadcast
\* while its handler still runs, and a working subscriber is still registered
\* and holds a "message" event.
C3_Witness ==
  \E c, d \in Clients :
    /\ c \in broken /\ wpc[c] \notin {"off", "closed"}
    /\ c \notin Range(chat_clients)
    /\ d \in Range(chat_clients) /\ d \notin broken
    /\ \E i \in 1..Len(inbox[d]) : inbox[d][i].type = "message"

\* C4: when a terminal delta is merged into the stored message of its run, the
\* store then holds that message with the delta's text, complete set and
\* streaming no longer set.
C4_TerminalDeltaEndsStreaming ==
  [][\A k \in Conns :
       (gpc[k] = "save" /\ gpc'[k] = "bcast" /\ glocal[k].update
          /\ glocal[k].message.complete) =>
         \E i \in 1..Len(history'.messages) :
           /\ history'.messages[i].id = glocal[k].message.id
           /\ history'.messages[i].text = glocal[k].message.text
           /\ history'.messages[i].complete
           /\ ~history'.messages[i].streaming]_vars

\* C5: a stored message with complete set carries no run id and is never
\* changed by a later step.
C5_CompleteIsImmutable ==
  [][\A i \in 1..Len(history.messages) :
       history.messages[i].complete =>
         /\ history.messages[i].run_id = None
         /\ i <= Len(history'.messages)
         /\ history'.messages[i] = history.messages[i]]_vars

\* C6: the ids of the stored messages are pairwise distinct.
C6_IdsDistinct ==
  \A i, j \in 1..Len(history.messages) :
    history.messages[i].id = history.messages[j].id => i = j

\* C7: the store never holds more than Capacity messages.
C7_StoreWithinCapacity == Len(history.messages) <= Capacity

\* C8: from the end of a clear until the next send or upstream event is taken
\* up, the store is empty and every init frame of a browser that connected
\* since the clear lists no message.
C8_ClearedStaysEmpty ==
  since_clear.on =>
    /\ history.messages = <<>>
    /\ \A c \in since_clear.joined :
         \A i \in 1..Len(inbox[c]) :
           inbox[c][i].type = "init" => inbox[c][i].body.messages = <<>>

\* The delay the claim expects before the i-th connection attempt (i > 1):
\* the initial delay after the link was Ready or lost for the first time,
\* twice the previous delay after a failed attempt, at most MAX_DELAY.
RECURSIVE Backoff(_)
Backoff(i) ==
  IF i <= 2 \/ attempts[i - 1].ready THEN INITIAL_DELAY
  ELSE Min(2 * Backoff(i - 1), MAX_DELAY)

\* C9: every reconnect attempt comes after a sleep of the backoff delay: 1,
\* doubled after each failed attempt, at most 60, back to 1 after Ready.
C9_ExponentialBackoff ==
  \A i \in 2..Len(attempts) : attempts[i].delay = Backoff(i)

\* C10: a chat.send is written upstream only in a step that starts with the
\* link Ready; a send_to_gateway call made when the link is not Ready writes
\* nothing upstream and returns "Not connected to Gateway" (the HTTP route
\* answers 500 with it, the browser's handler sends it as its error frame).
C10_SendOnlyWhenReady ==
  [][/\ ChatSends(upstream') # ChatSends(upstream) => Ready
     /\ (hpc = "deliver" /\ hpc' # "deliver" /\ ~Ready) =>
          /\ upstream' = upstream
          /\ hresp' = [status |-> 500, error |-> "Not connected to Gateway"]
     /\ \A c \in Clients :
          (wpc[c] = "deliver" /\ wpc'[c] # "deliver" /\ ~Ready) =>
            /\ upstream' = upstream
            /\ c \notin broken =>
                 /\ Got(c)[Len(Got(c))].type = "error"
                 /\ Got(c)[Len(Got(c))].body = "Not connected to Gateway"]_vars

\* C10 witness: one send was written upstream and another was refused with
\* "Not connected".
C10_Witness ==
  /\ ChatSends(upstream) # <<>>
  /\ hresp = [status |-> 500, error |-> "Not connected to Gateway"]

\* A transport closed while the link was Ready and connect_to_gateway has not
\* been called since.
LinkLost == attempts # <<>> /\ attempts[Len(attempts)].lost

\* C11: when a transport closes while the link is Ready, both flags are then
\* false, the session id is cleared and every registered subscriber whose
\* socket works receives gateway_status with connected false; and the pass of
\* the connection loop that follows calls connect_to_gateway.
C11_CloseLeadsToReconnect ==
  [][/\ \A k \in Conns :
          (Ready /\ on_gateway_close(k)) =>
            /\ ~gateway_connected' /\ ~gateway_hello_ok'
            /\ main_session_id' = None
            /\ \A d \in Range(chat_clients) \ broken :
                 \E i \in 1..Len(Got(d)) :
                   /\ Got(d)[i].type = "gateway_status"
                   /\ ~Got(d)[i].body.connected
     /\ (LinkLost /\ LoopIterate) => Len(attempts') = Len(attempts) + 1]_vars

\* C12: a save that ends an append leaves the store as it was with the new
\* message at its end, so no message stored meanwhile by another thread is
\* lost, whichever way the loads and saves of the threads interleave.
C12_AppendsAreAtomic ==
  [][/\ \A c \in Clients :
          WsSave(c) =>
            history'.messages = Append(history.messages, wlocal[c].message)
     /\ HttpSave => history'.messages = Append(history.messages, hlocal.message)
     /\ \A k \in Conns :
          (GwSave(k) /\ ~glocal[k].update) =>
            history'.messages = Append(history.messages, glocal[k].message)]_vars

\* C13: while a broadcast waits in a client.send, clients_lock can be taken:
\* a browser that connects can be registered, a browser whose loop has ended
\* can be removed, and another broadcast can be made.
C13_LockFreeWhileSendWaits ==
  hpc = "sending" =>
    \A c \in Clients :
      /\ wpc[c] = "off" => ENABLED WsJoin(c)
      /\ wpc[c] = "recv" => ENABLED WsExit(c)
      /\ (wpc[c] = "recv" /\ c \notin broken /\ frames < MaxFrames) =>
           ENABLED WsRecvClear(c)

\* The WebSocketApps whose run_forever thread is connecting or connected.
Live == {k \in Conns : conn[k] \in {"connecting", "open"}}

\* C14: at most one WebSocketApp is connecting or connected at any time, and
\* while the flags say Ready, gateway_ws is the connected one.
C14_OneLiveConnection ==
  /\ Cardinality(Live) <= 1
  /\ Ready => gateway_ws \in Live /\ conn[gateway_ws] = "open"

\* The frames C15 is about: those of OtherFrames, an error response, and an
\* agent event of a stream other than "assistant".
Ignored(frame) ==
  \/ frame \in OtherFrames
  \/ frame.type = "res" /\ frame.detail = "error"
  \/ frame.event = "agent" /\ frame.detail # "assistant"

\* C15: a step in which on_gateway_message takes such a frame changes neither
\* the store nor the registry nor the flags, the session id and gateway_ws,
\* no browser receives a frame in it, and the callback thread of every
\* connection stands ready for its next frame afterwards.
C15_IgnoredFramesChangeNothing ==
  [][(Len(received') = Len(received) + 1 /\ Ignored(received'[Len(received')])) =>
       /\ UNCHANGED <<history, chat_clients, inbox, linkVars, upstream>>
       /\ \A k \in Conns : gpc'[k] = "idle" /\ conn'[k] = conn[k]]_vars

\* C15 witness: with a browser registered and the link Ready, a frame of these
\* kinds was taken, and a message event taken after it is in the store and
\* has reached the browser.
C15_Witness ==
  /\ Ready
  /\ \E i, j \in 1..Len(received) :
       i < j /\ Ignored(received[i]) /\ received[j].event = "message"
  /\ history.messages # <<>>
  /\ \E c \in Range(chat_clients) :
       \E i \in 1..Len(inbox[c]) : inbox[c][i].type = "message"

\* The frame on_gateway_message takes in the step, if it takes one.
Takes(frame) ==
  /\ Len(received') = Len(received) + 1
  /\ received'[Len(received')] = frame

Methods(up, method) == SelectSeq(up, LAMBDA f : f.method = method)

\* C16: gateway_hello_ok turns true only in a step that takes a response of
\* type hello-ok without error; a connect request is written only in a step
\* that takes a connect.challenge event; and neither the open of a transport
\* nor an error response makes the link Ready.
C16_ReadyOnlyByHelloOk ==
  [][/\ (~gateway_hello_ok /\ gateway_hello_ok') =>
          Takes(Frame("res", None, "hello-ok"))
     /\ Methods(upstream', "connect") # Methods(upstream, "connect") =>
          Takes(Frame("event", "connect.challenge", None))
     /\ (\/ Takes(Frame("res", None, "error"))
         \/ \E k \in Conns : on_gateway_open(k)) => (Ready' => Ready)]_vars

\* C17: in the step in which a browser's handler ends, by the end of its
\* receive loop, by a failed send of its error frame or by an exception, the
\* browser is not (or no longer) in chat_clients, and no other browser leaves
\* chat_clients but one whose socket is broken.
C17_EndedHandlerIsUnregistered ==
  [][\A c \in Clients :
       (wpc[c] \notin {"closed", "raised"} /\ wpc'[c] \in {"closed", "raised"}) =>
         /\ c \notin Range(chat_clients')
         /\ \A d \in Range(chat_clients) \ {c} :
              d \in Range(chat_clients') \/ d \in broken]_vars

\* C18: a ping is written only in a step that starts with the link Ready; and
\* after a pass of the loop whose heartbeat could not be sent (the flags say
\* Ready and gateway_ws.send raises) the link is no longer Ready.
C18_FailedHeartbeatLeavesReady ==
  [][/\ Methods(upstream', "ping") # Methods(upstream, "ping") => Ready
     /\ (LoopIterate /\ GatewayUsable /\ ~WsSendWorks) => ~Ready']_vars

\* How many of the elements of s are m.
RECURSIVE Count(_, _)
Count(s, m) ==
  IF s = <<>> THEN 0 ELSE (IF Head(s) = m THEN 1 ELSE 0) + Count(Tail(s), m)

\* How many times message m is listed in the init frames among s.
RECURSIVE InitListings(_, _)
InitListings(s, m) ==
  IF s = <<>> THEN 0
  ELSE (IF Head(s).type = "init" THEN Count(Head(s).body.messages, m) ELSE 0)
       + InitListings(Tail(s), m)

\* No handler stands between its load and its last broadcast.
Quiet ==
  /\ hpc = "idle"
  /\ \A k \in Conns : gpc[k] = "idle"
  /\ \A c \in Clients : wpc[c] \in {"off", "recv", "closed", "raised"}

\* C19: the first frame a browser receives is its init frame; and, once every
\* handler has finished what it began, a registered browser whose socket works
\* has been given every stored message exactly once, in its init frame or as
\* a "message" event.
C19_InitFirstThenEachOnce ==
  \A c \in Clients :
    /\ inbox[c] # <<>> => inbox[c][1].type = "init"
    /\ (Quiet /\ wpc[c] = "recv" /\ c \notin broken) =>
         \A m \in Range(history.messages) :
           InitListings(inbox[c], m) + MessageEvents(inbox[c], m)
             = Count(history.messages, m)

\* C20: two different stored messages that a browser received as "message"
\* events, and that were stored after it had loaded the history for its init
\* frame, stand in the store in the order in which it received them.
C20_DeliveryInStoreOrder ==
  \A c \in Clients :
    \A i, j \in 1..Len(inbox[c]) :
      (i < j /\ inbox[c][i].type = "message" /\ inbox[c][j].type = "message") =>
        LET a == inbox[c][i].body
            b == inbox[c][j].body
        IN (/\ a # b
            /\ a \in Range(history.messages) /\ b \in Range(history.messages)
            /\ InitListings(inbox[c], a) = 0 /\ InitListings(inbox[c], b) = 0) =>
             \E p, q \in 1..Len(history.messages) :
               p < q /\ history.messages[p] = a /\ history.messages[q] = b

\* The typing indicator of browser c as the frames in inb leave it: on when
\* the last "typing" event among them has active true.
TypingShown(inb, c) ==
  LET typing == SelectSeq(inb[c], LAMBDA e : e.type = "typing")
  IN typing # <<>> /\ typing[Len(typing)].body

\* C21: for a registered browser whose socket works, the typing indicator is
\* off after each of these steps: the delivery of a send whose write to the
\* Gateway fails, the handling of an assistant event with data, the broadcast
\* of a message the agent sent as a "message" event, and the close of the
\* transport.
C21_TypingEndsWithAnswer ==
  [][\A c \in Range(chat_clients) \ broken :
       (\/ \E d \in Clients : WsDeliver(d) /\ ~send_to_gateway_result[1]
        \/ \E k \in Conns, p \in AgentPayloads :
             p.stream = "assistant" /\ p.has_data /\ GwAgent(k, p)
        \/ \E k \in Conns : GwBroadcast(k) /\ ~glocal[k].update
                               /\ glocal[k].message.run_id = None
        \/ \E k \in Conns : on_gateway_close(k)) =>
         ~TypingShown(inbox', c)]_vars

====
